---- MODULE Spec2Model ----
(***************************************************************************)
(* Model of gosync-sample (src/main.go): an HTTP server that serves a file  *)
(* and the encoded checksum index of that file, and a client that fetches  *)
(* and decodes the index (GetSummary) and patches a local file against it  *)
(* (MakeRSync, RSync.Patch).                                               *)
(*                                                                         *)
(* The codec, the handlers, GetSummary and main are translated from        *)
(* src/main.go.  The checksum generator, the chunk reader, the block       *)
(* matcher and the block source are calls into the go-sync library, whose  *)
(* code is not part of src/: they are modelled from the design document    *)
(* (sections 4.1, 4.2, 4.5, 4.6).                                          *)
(***************************************************************************)
EXTENDS Integers, Sequences, FiniteSets, TLC

\* ------------------------------------------------------------------ bounds

\* Largest size, in bytes, of remote.txt and of local.txt.
MaxFileSize == 4
\* Largest block size the client requests; the smallest is 2 (main requests 4).
MaxBlockSize == 3
\* Largest record section, in bytes, of a stream not produced by the server.
MaxRest == 3
\* fetchBlock's attempt limit (design document 4.5, maxAttempts).
MaxAttempts == 2
\* Largest number of fetches in flight at once (main passes 1).
Concurrency == 2

\* The byte values file contents are drawn from.
Alphabet == {0, 1}
\* The width fields a stream not produced by the server may carry.
ForeignWidths == {0, 1, 2}

\* --------------------------------------------------------------- constants

\* generator.WeakRollingHash.Size(): the rolling checksum is 32 bits wide.
WeakSize == 4
\* generator.GetStrongHash().Size(): md5 digests are 16 bytes.
StrongSize == 16

\* ----------------------------------------------------------------- helpers

Min(a, b) == IF a < b THEN a ELSE b

SeqsUpTo(S, n) == UNION {[1..k -> S] : k \in 0..n}

Drop(s, n) == SubSeq(s, n + 1, Len(s))

Take(s, n) == SubSeq(s, 1, n)

\* binary.LittleEndian.PutUint32 / PutUint64: n bytes, least significant first.
RECURSIVE PutLittleEndian(_, _)
PutLittleEndian(val, n) ==
    IF n = 0 THEN <<>>
    ELSE <<val % 256>> \o PutLittleEndian(val \div 256, n - 1)

\* binary.LittleEndian.Uint32 / Uint64: the value of a byte string.
RECURSIVE LittleEndianValue(_)
LittleEndianValue(bs) ==
    IF bs = <<>> THEN 0
    ELSE Head(bs) + 256 * LittleEndianValue(Tail(bs))

intToBytesNoPad(val) == PutLittleEndian(val, 1)

intToBytes(val) == PutLittleEndian(val, 4)

int64ToBytes(val) == PutLittleEndian(val, 8)

\* ------------------------------------------------- checksum generator (4.1)

\* Rolling checksum of a block: a is the sum of the bytes, b the sum of the
\* running sums, 16 bits each, written as one little-endian 32-bit value.
RECURSIVE RollA(_)
RollA(block) ==
    IF block = <<>> THEN 0 ELSE (Head(block) + RollA(Tail(block))) % 65536

RECURSIVE RollB(_)
RollB(block) ==
    IF block = <<>> THEN 0
    ELSE (RollB(Take(block, Len(block) - 1)) + RollA(block)) % 65536

WeakChecksum(block) ==
    PutLittleEndian(RollA(block), 2) \o PutLittleEndian(RollB(block), 2)

\* Strong checksum of a block.  md5 is modelled as a collision-free digest:
\* the block read as a number in base 3 (digit = byte + 1), which tells apart
\* any two blocks over Alphabet, of equal or different length.
RECURSIVE Digest(_)
Digest(block) ==
    IF block = <<>> THEN 0
    ELSE 3 * Digest(Take(block, Len(block) - 1)) + block[Len(block)] + 1

StrongChecksum(block) == PutLittleEndian(Digest(block), StrongSize)

\* Number of blocks the generator produces for a content.
NumBlocks(size, bs) == (size + bs - 1) \div bs

\* Block b (0-based) of a content: bs bytes, the last block possibly shorter.
BlockOf(data, bs, b) == SubSeq(data, b * bs + 1, Min((b + 1) * bs, Len(data)))

\* The generator's records, in block order.
Generate(data, bs) ==
    [i \in 1..NumBlocks(Len(data), bs) |->
        [weak |-> WeakChecksum(BlockOf(data, bs, i - 1)),
         strong |-> StrongChecksum(BlockOf(data, bs, i - 1))]]

\* generator.GenerateChecksums(content, b): for every record, in order, the
\* weak bytes then the strong bytes.
RECURSIVE WriteRecords(_)
WriteRecords(recs) ==
    IF recs = <<>> THEN <<>>
    ELSE Head(recs).weak \o Head(recs).strong \o WriteRecords(Tail(recs))

GenerateChecksums(data, bs) == WriteRecords(Generate(data, bs))

\* ------------------------------------------------------------------- codec

EncodeChecksumIndexNoWidths(data, fileSize, bs) ==
    int64ToBytes(fileSize) \o GenerateChecksums(data, bs)

EncodeChecksumIndexWidthsSwapped(data, fileSize, bs) ==
    int64ToBytes(fileSize) \o intToBytes(StrongSize) \o intToBytes(WeakSize)
        \o GenerateChecksums(data, bs)

\* EncodeChecksumIndex(content, fileSize, blockSize): the header (file size,
\* weak width, strong width), then what the generator writes.

EncodeChecksumIndex(data, fileSize, bs) ==
    int64ToBytes(fileSize) \o intToBytes(WeakSize) \o intToBytes(StrongSize)
        \o GenerateChecksums(data, bs)

\* A reader is the bytes it yields and how it ends: "EOF", or the error of a
\* response body whose connection closed before the declared length,
\* "ErrUnexpectedEOF".

\* chunks.LoadChecksumsFromReader(reader, weakSize, strongSize): reads a weak
\* then a strong checksum until the reader reports EOF before a record; any
\* other end is a partial checksum.  A read of zero bytes succeeds without
\* touching the reader, so with both widths zero the loop never ends
\* ("diverges").
RECURSIVE LoadChecksumsFromReader(_, _, _, _, _)
LoadChecksumsFromReader(rest, end, w, s, acc) ==
    IF w = 0 /\ s = 0 THEN [err |-> "diverges", records |-> <<>>]
    ELSE IF w > 0 /\ rest = <<>> /\ end = "EOF" THEN [err |-> "none", records |-> acc]
    ELSE IF Len(rest) < w + s THEN [err |-> "ErrPartialChecksum", records |-> <<>>]
    ELSE LoadChecksumsFromReader(Drop(rest, w + s), end, w, s,
            Append(acc, [weak |-> Take(rest, w),
                         strong |-> SubSeq(rest, w + 1, w + s)]))

DecodeFailure(e) ==
    [err |-> e, fileSize |-> 0, weakSize |-> 0, strongSize |-> 0, records |-> <<>>]

DecodeChecksumIndexSwapped(stream, end) ==
    IF Len(stream) < 16 THEN DecodeFailure(end)
    ELSE LET fileSize == LittleEndianValue(SubSeq(stream, 1, 8))
             weakSize == LittleEndianValue(SubSeq(stream, 13, 16))
             strongSize == LittleEndianValue(SubSeq(stream, 9, 12))
             loaded == LoadChecksumsFromReader(Drop(stream, 16), end, weakSize,
                                               strongSize, <<>>)
         IN  [err |-> loaded.err, fileSize |-> fileSize, weakSize |-> weakSize,
              strongSize |-> strongSize, records |-> loaded.records]

\* DecodeChecksumIndex(reader): three io.CopyN calls read the 8 + 4 + 4 header
\* bytes, each returning an error (EOF, or the reader's) when the reader ends
\* early; the fields are little-endian; the rest of the reader is handed to
\* LoadChecksumsFromReader with the widths as read, and its error is returned.
DecodeChecksumIndex(stream, end) ==
    IF Len(stream) < 8 THEN DecodeFailure(end)
    ELSE IF Len(stream) < 12 THEN DecodeFailure(end)
    ELSE IF Len(stream) < 16 THEN DecodeFailure(end)
    ELSE LET fileSize == LittleEndianValue(SubSeq(stream, 1, 8))
             weakSize == LittleEndianValue(SubSeq(stream, 9, 12))
             strongSize == LittleEndianValue(SubSeq(stream, 13, 16))
             loaded == LoadChecksumsFromReader(Drop(stream, 16), end, weakSize,
                                               strongSize, <<>>)
         IN  [err |-> loaded.err, fileSize |-> fileSize, weakSize |-> weakSize,
              strongSize |-> strongSize, records |-> loaded.records]

\* --------------------------------------------------- block matching (4.6)

\* BlockIndex.candidatesFor(weakValue): the blocks recorded under a weak value.
candidatesFor(records, weak) == {b \in 0..(Len(records) - 1) : records[b + 1].weak = weak}

\* BlockIndex.strongChecksumOf(blockIndex).
strongChecksumOf(records, b) == records[b + 1].strong

\* The candidates of a window that the strong checksum confirms.
VerifiedMatches(records, window) ==
    {b \in candidatesFor(records, WeakChecksum(window)) :
        strongChecksumOf(records, b) = StrongChecksum(window)}

\* The scan of the local file: a window of blockSize bytes (shorter at the end
\* of the file) slides from pos; a window that matches satisfies every block
\* it matches and the scan skips the whole window, otherwise one byte.
\* found[b] is the local offset block b is copied from, or -1.
RECURSIVE Scan(_, _, _, _, _)
Scan(loc, pos, records, bs, found) ==
    IF pos >= Len(loc) THEN found
    ELSE LET window == SubSeq(loc, pos + 1, Min(pos + bs, Len(loc)))
             hits == VerifiedMatches(records, window)
         IN  IF hits # {}
             THEN Scan(loc, pos + Len(window), records, bs,
                       [b \in DOMAIN found |->
                           IF b \in hits /\ found[b] = -1 THEN pos ELSE found[b]])
             ELSE Scan(loc, pos + 1, records, bs, found)

\* blocksources.MakeFileSizedBlockResolver(blockSize, fileSize): the byte range
\* [start, end) of a block, the last one cut at the file size.
BlockStart(fs, b) == b * fs.blockSize

BlockEnd(fs, b) == Min((b + 1) * fs.blockSize, fs.fileSize)

\* One instruction per target block, in block order.
MakePlan(loc, fs) ==
    LET found == Scan(loc, 0, fs.records, fs.blockSize,
                      [b \in 0..(fs.blockCount - 1) |-> -1])
    IN  [i \in 1..fs.blockCount |->
            IF found[i - 1] >= 0
            THEN [op |-> "CopyLocal", offset |-> found[i - 1],
                  length |-> BlockEnd(fs, i - 1) - BlockStart(fs, i - 1)]
            ELSE [op |-> "FetchRemote", offset |-> BlockStart(fs, i - 1),
                  length |-> BlockEnd(fs, i - 1) - BlockStart(fs, i - 1)]]

\* filechecksum.HashVerifier of MakeRSync: the strong checksum of the fetched
\* bytes against the one the summary holds for the block.
VerifyBlock(fs, b, bytes) ==
    b < Len(fs.records) /\ StrongChecksum(bytes) = strongChecksumOf(fs.records, b)

NoVerifier(fs, b, bytes) == TRUE

\* MakeRSync gives the block source a HashVerifier over the summary's
\* checksums (md5, the summary's block size).
Verifier(fs, b, bytes) == VerifyBlock(fs, b, bytes)

\* ------------------------------------------------------------------- state

VARIABLES
    pc,          \* where main is
    remote,      \* the bytes of remote.txt
    blockSize,   \* the block size the client requests
    body,        \* the stream checksumHandler wrote
    received,    \* what GetSummary read: [kind, bytes]
    summary,     \* the FileSummary GetSummary returned, or NoSummary
    summaryErr,  \* the error GetSummary returned
    local,       \* the bytes of local.txt
    plan,        \* the reconstruction plan
    status,      \* per block: "local", "missing", "inflight", "fetched"
    attempts,    \* per block in flight: Requester calls made for it so far
    buffer,      \* per block: the verified bytes fetched for it
    tampered,    \* blocks for which bytes failing verification arrived
    cursor,      \* number of blocks written to the output
    output,      \* the bytes of the temporary output file
    writes,      \* per block: how many times it was written
    readBytes,   \* bytes downloaded by the block source
    patchErr     \* what Patch returned

vars == <<pc, remote, blockSize, body, received, summary, summaryErr, local, plan,
          status, attempts, buffer, tampered, cursor, output, writes, readBytes,
          patchErr>>

clientVars == <<local, plan, status, attempts, buffer, tampered, cursor, output,
                writes, readBytes, patchErr>>

NoSummary == [fileSize |-> 0, blockSize |-> 0, blockCount |-> 0, records |-> <<>>,
              valid |-> FALSE]

Blocks == 0..(summary.blockCount - 1)

Init ==
    /\ pc = "start"
    /\ remote \in SeqsUpTo(Alphabet, MaxFileSize)
    /\ blockSize \in 2..MaxBlockSize
    /\ body = <<>>
    /\ received = [kind |-> "none", bytes |-> <<>>, end |-> "EOF"]
    /\ summary = NoSummary
    /\ summaryErr = "none"
    /\ local = <<>>
    /\ plan = <<>>
    /\ status = <<>>
    /\ attempts = <<>>
    /\ buffer = <<>>
    /\ tampered = {}
    /\ cursor = 0
    /\ output = <<>>
    /\ writes = <<>>
    /\ readBytes = 0
    /\ patchErr = "none"

\* fmt.Sprintf("%d", BlockSize): the decimal digits of the block size.
RECURSIVE FormatDecimal(_)
FormatDecimal(n) ==
    IF n < 10 THEN <<n>> ELSE FormatDecimal(n \div 10) \o <<n % 10>>

\* strconv.ParseUint(query, 10, 32): the value of the digits; for a text that
\* is no number it returns 0 and an error, which checksumHandler drops.
RECURSIVE ParseUint(_)
ParseUint(digits) ==
    IF digits = <<>> THEN 0
    ELSE 10 * ParseUint(Take(digits, Len(digits) - 1)) + digits[Len(digits)]

checksumHandlerFixedBlock ==
    /\ pc = "start"
    /\ body' = EncodeChecksumIndex(remote, Len(remote), MaxFileSize + 1)
    /\ pc' = "served"
    /\ UNCHANGED <<remote, blockSize, received, summary, summaryErr>>
    /\ UNCHANGED clientVars

\* checksumHandler: the encoded index of remote.txt for the block size of the
\* query GetSummary sends, with the size os.Stat reports.
checksumHandler ==
    /\ pc = "start"
    /\ body' = EncodeChecksumIndex(remote, Len(remote),
                                   ParseUint(FormatDecimal(blockSize)))
    /\ pc' = "served"
    /\ UNCHANGED <<remote, blockSize, received, summary, summaryErr>>
    /\ UNCHANGED clientVars

\* What GetSummary gets from the request: no response ("failed"); the whole
\* stream ("intact"); the stream up to the point where the connection closed
\* ("cut"), which the body reports as an error; or the response of another
\* server, which ends regularly: a shorter copy of the stream ("short") or a
\* stream with a header of its own ("foreign").
Deliveries ==
    {[kind |-> "failed", bytes |-> <<>>, end |-> "EOF"]}
    \cup {[kind |-> "intact", bytes |-> body, end |-> "EOF"]}
    \cup {[kind |-> "cut", bytes |-> Take(body, n), end |-> "ErrUnexpectedEOF"] :
            n \in 0..(Len(body) - 1)}
    \cup {[kind |-> "short", bytes |-> Take(body, n), end |-> "EOF"] :
            n \in 0..(Len(body) - 1)}
    \cup {[kind |-> "foreign",
           bytes |-> int64ToBytes(f) \o intToBytes(w) \o intToBytes(s)
                        \o [i \in 1..n |-> 0],
           end |-> "EOF"] :
            f \in {0, MaxFileSize}, w \in ForeignWidths, s \in ForeignWidths,
            n \in 0..MaxRest}

\* The block count GetSummary computes.
BlockCountNoRoundUp(fileSize, bs) == fileSize \div bs

BlockCount(fileSize, bs) ==
    IF fileSize % bs # 0 THEN fileSize \div bs + 1 ELSE fileSize \div bs

GetSummaryResultIgnoringErr(d) ==
    [pc |-> "summary", err |-> "none",
     fs |-> [fileSize |-> d.fileSize, blockSize |-> blockSize,
             blockCount |-> BlockCount(d.fileSize, blockSize),
             records |-> d.records, valid |-> TRUE]]

\* GetSummary after DecodeChecksumIndex returned d: the error as it is, or the
\* BasicSummary.  A decode that never returns leaves GetSummary waiting.
GetSummaryResult(d) ==
    IF d.err = "diverges" THEN [pc |-> "hung", err |-> "none", fs |-> NoSummary]
    ELSE IF d.err # "none" THEN [pc |-> "fatal", err |-> d.err, fs |-> NoSummary]
    ELSE [pc |-> "summary", err |-> "none",
          fs |-> [fileSize |-> d.fileSize, blockSize |-> blockSize,
                  blockCount |-> BlockCount(d.fileSize, blockSize),
                  records |-> d.records, valid |-> TRUE]]

GetSummary ==
    /\ pc = "served"
    /\ \E d \in Deliveries :
        LET r == IF d.kind = "failed"
                 THEN [pc |-> "fatal", err |-> "GetError", fs |-> NoSummary]
                 ELSE GetSummaryResult(DecodeChecksumIndex(d.bytes, d.end))
        IN  /\ received' = d
            /\ summary' = r.fs
            /\ summaryErr' = r.err
            /\ pc' = r.pc
    /\ UNCHANGED <<remote, blockSize, body>>
    /\ UNCHANGED clientVars

\* The contents local.txt can have.
LocalFiles == SeqsUpTo(Alphabet, MaxFileSize)

\* main opens local.txt, MakeRSync wires the block source, and Patch scans the
\* local file into the plan.  The reconstruction is followed for the summary
\* decoded from the whole stream checksumHandler served.
MakeRSync ==
    /\ pc = "summary"
    /\ received.kind = "intact"
    /\ \E loc \in LocalFiles :
        /\ local' = loc
        /\ plan' = MakePlan(loc, summary)
    /\ status' = [b \in Blocks |->
                    IF plan'[b + 1].op = "CopyLocal" THEN "local" ELSE "missing"]
    /\ attempts' = [b \in Blocks |-> 0]
    /\ buffer' = [b \in Blocks |-> <<>>]
    /\ writes' = [b \in Blocks |-> 0]
    /\ pc' = "patching"
    /\ UNCHANGED <<remote, blockSize, body, received, summary, summaryErr, tampered,
                   cursor, output, readBytes, patchErr>>

InFlight == {b \in Blocks : status[b] = "inflight"}

Missing == {b \in Blocks : status[b] = "missing"}

\* The block source takes the next missing block, in block order, while fewer
\* than Concurrency fetches are in flight.
IssueFetch ==
    /\ pc = "patching"
    /\ Cardinality(InFlight) < Concurrency
    /\ Missing # {}
    /\ LET b == CHOOSE x \in Missing : \A y \in Missing : x <= y
       IN  status' = [status EXCEPT ![b] = "inflight"]
    /\ UNCHANGED <<pc, remote, blockSize, body, received, summary, summaryErr, local,
                   plan, attempts, buffer, tampered, cursor, output, writes,
                   readBytes, patchErr>>

\* contentHandler serves the requested byte range of remote.txt.
RemoteRange(start, end) == SubSeq(remote, start + 1, end)

\* Bytes altered in transit: the first byte replaced by another value.
Tamper(bytes) ==
    [i \in 1..Len(bytes) |->
        IF i = 1 THEN CHOOSE v \in Alphabet : v # bytes[1] ELSE bytes[i]]

RetryAllowedOnceMore(n) == n <= MaxAttempts

\* fetchBlock retries a transport failure while attempts remain.
RetryAllowed(n) == n < MaxAttempts

\* One Requester call for a block in flight, and what fetchBlock makes of it:
\* bytes arrive, those of the range or altered ones, and are buffered when the
\* verifier accepts them, while a rejection ends the patch; or the transport
\* fails, which is retried while attempts remain and otherwise ends the patch.
\* The attempt count of a fetch is dropped when the fetch completes.
\* tampered records the blocks for which bytes with the wrong checksum arrived.
RequesterCall ==
    /\ pc = "patching"
    /\ \E b \in InFlight :
        LET bytes == RemoteRange(BlockStart(summary, b), BlockEnd(summary, b))
            n == attempts[b] + 1
        IN  /\ \/ \E got \in {bytes, Tamper(bytes)} :
                    /\ readBytes' = readBytes + Len(got)
                    /\ tampered' = IF VerifyBlock(summary, b, got) THEN tampered
                                   ELSE tampered \cup {b}
                    /\ IF Verifier(summary, b, got)
                       THEN /\ buffer' = [buffer EXCEPT ![b] = got]
                            /\ status' = [status EXCEPT ![b] = "fetched"]
                            /\ attempts' = [attempts EXCEPT ![b] = 0]
                            /\ UNCHANGED <<pc, patchErr>>
                       ELSE /\ patchErr' = "ChecksumMismatchError"
                            /\ pc' = "done"
                            /\ attempts' = [attempts EXCEPT ![b] = n]
                            /\ UNCHANGED <<buffer, status>>
               \/ /\ RetryAllowed(n)
                  /\ attempts' = [attempts EXCEPT ![b] = n]
                  /\ UNCHANGED <<pc, patchErr, tampered, buffer, status, readBytes>>
               \/ /\ ~RetryAllowed(n)
                  /\ attempts' = [attempts EXCEPT ![b] = n]
                  /\ patchErr' = "TransportExhaustedError"
                  /\ pc' = "done"
                  /\ UNCHANGED <<tampered, buffer, status, readBytes>>
    /\ UNCHANGED <<remote, blockSize, body, received, summary, summaryErr, local,
                   plan, cursor, output, writes>>

\* The bytes an instruction resolves to.
Resolved(b) ==
    IF plan[b + 1].op = "CopyLocal"
    THEN SubSeq(local, plan[b + 1].offset + 1, plan[b + 1].offset + plan[b + 1].length)
    ELSE buffer[b]

\* The output is written in block order: the block at the cursor once its
\* instruction is resolved.
WriteBlock ==
    /\ pc = "patching"
    /\ cursor < summary.blockCount
    /\ status[cursor] \in {"local", "fetched"}
    /\ output' = output \o Resolved(cursor)
    /\ writes' = [writes EXCEPT ![cursor] = @ + 1]
    /\ cursor' = cursor + 1
    /\ UNCHANGED <<pc, remote, blockSize, body, received, summary, summaryErr, local,
                   plan, status, attempts, buffer, tampered, readBytes, patchErr>>

\* Patch returns nil once every block is written; main logs, closes and reads
\* the temporary file back.
PatchDone ==
    /\ pc = "patching"
    /\ cursor = summary.blockCount
    /\ pc' = "done"
    /\ UNCHANGED <<remote, blockSize, body, received, summary, summaryErr>>
    /\ UNCHANGED clientVars

Next ==
    \/ checksumHandler
    \/ GetSummary
    \/ MakeRSync
    \/ IssueFetch
    \/ RequesterCall
    \/ WriteBlock
    \/ PatchDone

Spec == Init /\ [][Next]_vars

\* ------------------------------------------------------------- the claims

IsPrefix(s, t) == Len(s) <= Len(t) /\ s = SubSeq(t, 1, Len(s))

\* GetSummary has been called and is not running any more.
Returned == pc \notin {"start", "served"}

\* The patch operation has started.
InPatch == pc \in {"patching", "done"}

\* Patch has returned.
PatchEnded == pc = "done"

\* The header fields of the stream GetSummary read (16 bytes at least).
HeaderWeak == LittleEndianValue(SubSeq(received.bytes, 9, 12))

HeaderStrong == LittleEndianValue(SubSeq(received.bytes, 13, 16))

RecordSize == WeakSize + StrongSize

\* C1: decoding the stream EncodeChecksumIndex produced succeeds and returns
\* the file size and, block by block and in block order, the weak and strong
\* checksums of the records the generator produces from the content.
RoundTrip ==
    (Returned /\ received.kind = "intact") =>
        /\ pc \notin {"fatal", "hung"}
        /\ summaryErr = "none"
        /\ summary.valid
        /\ summary.fileSize = Len(remote)
        /\ Len(summary.records) = NumBlocks(Len(remote), blockSize)
        /\ \A b \in 0..(Len(summary.records) - 1) :
            /\ summary.records[b + 1].weak = WeakChecksum(BlockOf(remote, blockSize, b))
            /\ summary.records[b + 1].strong = StrongChecksum(BlockOf(remote, blockSize, b))

\* The whole stream of two blocks with different contents, the last one
\* shorter, has been decoded.
RoundTripWitness ==
    /\ pc = "summary"
    /\ received.kind = "intact"
    /\ Len(summary.records) = 2
    /\ summary.records[1] # summary.records[2]
    /\ Len(remote) % blockSize # 0

\* C2: the stream checksumHandler serves is the 8-byte little-endian file size,
\* the 4-byte little-endian weak and strong widths, then one record per block in
\* block order, weak bytes then strong bytes, and nothing else: its length is
\* 16 + blockCount * (weakWidth + strongWidth).
StreamLayout ==
    (pc # "start") =>
        LET n == NumBlocks(Len(remote), blockSize)
        IN  /\ Len(body) = 16 + n * RecordSize
            /\ \A i \in 1..Len(body) : body[i] \in 0..255
            /\ LittleEndianValue(SubSeq(body, 1, 8)) = Len(remote)
            /\ LittleEndianValue(SubSeq(body, 9, 12)) = WeakSize
            /\ LittleEndianValue(SubSeq(body, 13, 16)) = StrongSize
            /\ \A b \in 0..(n - 1) :
                LET at == 16 + b * RecordSize
                IN  /\ SubSeq(body, at + 1, at + WeakSize)
                        = WeakChecksum(BlockOf(remote, blockSize, b))
                    /\ SubSeq(body, at + WeakSize + 1, at + RecordSize)
                        = StrongChecksum(BlockOf(remote, blockSize, b))

\* A stream of two records has been served.
StreamLayoutWitness ==
    /\ pc = "served"
    /\ Len(body) = 16 + 2 * RecordSize
    /\ Len(remote) % blockSize # 0

\* The stream GetSummary read ends inside the header or inside a record.
Truncated ==
    \/ received.kind # "failed" /\ Len(received.bytes) < 16
    \/ /\ Len(received.bytes) >= 16
       /\ HeaderWeak + HeaderStrong > 0
       /\ (Len(received.bytes) - 16) % (HeaderWeak + HeaderStrong) # 0

\* C3: for a stream that ends inside the header, or whose record section is
\* not a whole number of records, GetSummary returns the decode error and no
\* FileSummary, and main stops there.
TruncatedRejected ==
    (Returned /\ Truncated) =>
        /\ pc = "fatal"
        /\ summaryErr # "none"
        /\ summary = NoSummary

\* GetSummary read a stream that ends, regularly, inside its second record.
TruncatedRecordWitness ==
    /\ pc = "fatal"
    /\ received.kind = "short"
    /\ Len(received.bytes) > 16 + RecordSize
    /\ (Len(received.bytes) - 16) % RecordSize # 0
    /\ summaryErr = "ErrPartialChecksum"

\* C4: for a stream whose header carries a zero weak or strong width, what
\* decoding returns is an error and no index, so that GetSummary returns no
\* FileSummary.
ZeroWidthRejected ==
    (/\ Returned
     /\ pc # "hung"
     /\ Len(received.bytes) >= 16
     /\ (HeaderWeak = 0 \/ HeaderStrong = 0)) =>
        /\ pc = "fatal"
        /\ summaryErr # "none"
        /\ summary = NoSummary

\* C5: a FileSummary GetSummary returns for the response of checksumHandler
\* has blockCount = ceil(fileSize / blockSize) = number of decoded records, and
\* the implied length of the last block is between 1 and blockSize.
BlockCountInvariant ==
    (Returned /\ received.kind \in {"intact", "cut"} /\ summary.valid) =>
        /\ summary.fileSize = Len(remote)
        /\ summary.blockSize = blockSize
        /\ summary.blockCount * blockSize >= Len(remote)
        /\ (summary.blockCount - 1) * blockSize < Len(remote) \/ summary.blockCount = 0
        /\ summary.blockCount = Len(summary.records)
        /\ LET last == summary.fileSize - blockSize * (summary.blockCount - 1)
           IN  1 <= last /\ last <= blockSize

\* A summary whose last block is shorter than the block size.
BlockCountWitness ==
    /\ pc = "summary"
    /\ received.kind = "intact"
    /\ summary.blockCount = 2
    /\ summary.fileSize - blockSize * (summary.blockCount - 1) < blockSize

\* C6: with a local file identical to the remote one the plan holds only
\* CopyLocal instructions, no Requester call is made, no byte is downloaded,
\* and the patch ends in success with the output equal to the remote file.
IdenticalNoFetch ==
    (InPatch /\ local = remote) =>
        /\ Len(plan) = NumBlocks(Len(remote), blockSize)
        /\ \A i \in 1..Len(plan) : plan[i].op = "CopyLocal"
        /\ \A b \in Blocks : attempts[b] = 0 /\ status[b] = "local"
        /\ readBytes = 0
        /\ PatchEnded => (patchErr = "none" /\ output = remote)

\* An identical file of several blocks, the last one shorter, was patched.
IdenticalWitness ==
    /\ pc = "done"
    /\ local = remote
    /\ Len(plan) >= 2
    /\ Len(remote) % blockSize # 0
    /\ output = remote

\* The positions (1-based) where the two files differ.
Differ == {i \in 1..Len(local) : local[i] # remote[i]}

DifferFirst == CHOOSE i \in Differ : \A j \in Differ : i <= j

DifferLast == CHOOSE i \in Differ : \A j \in Differ : i >= j

\* The files have the same length and differ only within one contiguous region
\* shorter than one block.
SmallRegion ==
    /\ InPatch
    /\ Len(local) = Len(remote)
    /\ Differ # {}
    /\ DifferLast - DifferFirst + 1 < blockSize

\* Block b holds a byte of the region.
Overlaps(b) ==
    /\ BlockStart(summary, b) + 1 <= DifferLast
    /\ DifferFirst <= BlockEnd(summary, b)

\* A window of the local file at an offset that is no multiple of the block
\* size matches a block of the remote file.
MisalignedMatch ==
    \E pos \in 0..(Len(local) - 1) :
        /\ pos % blockSize # 0
        /\ VerifiedMatches(summary.records,
               SubSeq(local, pos + 1, Min(pos + blockSize, Len(local)))) # {}

\* C7 as stated: when the files differ only within a region shorter than one
\* block, every block that does not overlap the region is resolved by CopyLocal.
MinimalFetch ==
    SmallRegion =>
        \A b \in Blocks : ~Overlaps(b) => plan[b + 1].op = "CopyLocal"

\* C7 as amended: every block that ends before the region is resolved by
\* CopyLocal, and so is every block after the region unless a window of the
\* local file at a misaligned offset matches a remote block.
MinimalFetchAligned ==
    SmallRegion =>
        /\ \A b \in Blocks :
            BlockEnd(summary, b) < DifferFirst => plan[b + 1].op = "CopyLocal"
        /\ ~MisalignedMatch =>
            \A b \in Blocks : ~Overlaps(b) => plan[b + 1].op = "CopyLocal"

\* One byte differs in the first of two blocks; only that block is fetched,
\* and the patch has ended in success.
MinimalFetchWitness ==
    /\ SmallRegion
    /\ ~MisalignedMatch
    /\ summary.blockCount = 2
    /\ plan[1].op = "FetchRemote"
    /\ plan[2].op = "CopyLocal"
    /\ Overlaps(0) /\ ~Overlaps(1)
    /\ pc = "done"
    /\ output = remote

\* The bytes of block b in the output, once written.
Written(b) == SubSeq(output, BlockStart(summary, b) + 1, BlockEnd(summary, b))

\* C8: once bytes with the wrong strong checksum arrived for a block, the patch
\* has ended with ChecksumMismatchError, the block was asked for no further
\* time, its bytes were neither buffered nor written, and every fetched block in
\* the output has the strong checksum the index holds for it.
CorruptionDetected ==
    /\ [](InPatch =>
            /\ \A b \in tampered :
                /\ PatchEnded
                /\ patchErr = "ChecksumMismatchError"
                /\ buffer[b] = <<>>
                /\ writes[b] = 0
                /\ cursor <= b
            /\ \A b \in 0..(cursor - 1) :
                plan[b + 1].op = "FetchRemote" =>
                    StrongChecksum(Written(b)) = strongChecksumOf(summary.records, b))
    /\ [][tampered # {} => (attempts' = attempts /\ output' = output)]_vars

\* Altered bytes arrived for a block after an earlier fetched block was written.
CorruptionWitness ==
    /\ pc = "done"
    /\ tampered # {}
    /\ patchErr = "ChecksumMismatchError"
    /\ cursor >= 1
    /\ plan[1].op = "FetchRemote"
    /\ Len(output) < Len(remote)

\* The steps block b can still take: to be issued, asked for, and written.
RemainingOf(b) ==
    IF status[b] = "missing" THEN MaxAttempts + 2
    ELSE IF status[b] = "inflight" THEN MaxAttempts - attempts[b] + 1
    ELSE IF b >= cursor THEN 1 ELSE 0

RECURSIVE RemainingUpTo(_)
RemainingUpTo(n) == IF n = 0 THEN 0 ELSE RemainingOf(n - 1) + RemainingUpTo(n - 1)

Remaining == RemainingUpTo(summary.blockCount)

\* C9: no block is asked for more than MaxAttempts times; a failed call is
\* followed by another only while attempts remain; the patch ends with
\* TransportExhaustedError exactly when a block used up its attempts; what Patch
\* returned does not change afterwards; and every patch ends: while it runs a
\* step is possible, and every step lowers the number of steps that remain.
BoundedRetry ==
    /\ [](InPatch =>
            /\ \A b \in Blocks : attempts[b] <= MaxAttempts
            /\ \A b \in Blocks : (status[b] = "inflight" /\ ~PatchEnded) =>
                                    attempts[b] < MaxAttempts
            /\ (patchErr = "TransportExhaustedError") =>
                /\ PatchEnded
                /\ \E b \in Blocks : attempts[b] = MaxAttempts /\ status[b] = "inflight"
            /\ Remaining >= 0
            /\ (pc = "patching") => ENABLED Next)
    /\ [][PatchEnded => (PatchEnded' /\ patchErr' = patchErr /\ attempts' = attempts)]_vars
    /\ [][(pc = "patching" /\ pc' = "patching") => Remaining' < Remaining]_vars

\* A block was fetched, and a later fetch used its attempts up.
BoundedRetryWitness ==
    /\ pc = "done"
    /\ patchErr = "TransportExhaustedError"
    /\ \E b \in Blocks : status[b] = "fetched"
    /\ \E b \in Blocks : status[b] = "inflight" /\ attempts[b] = MaxAttempts

\* C10: whatever the order in which fetches complete, a block is written at
\* most once and exactly the blocks before the cursor are written, the cursor
\* and the output only grow, and on success the output is the bytes of the
\* blocks in block order, fileSize bytes in all.
OrderedOutput ==
    /\ [](InPatch =>
            /\ cursor <= summary.blockCount
            /\ \A b \in Blocks : writes[b] = (IF b < cursor THEN 1 ELSE 0)
            /\ Len(output) = (IF cursor = 0 THEN 0 ELSE BlockEnd(summary, cursor - 1))
            /\ (PatchEnded /\ patchErr = "none") =>
                /\ cursor = summary.blockCount
                /\ Len(output) = summary.fileSize
                /\ \A b \in Blocks : Written(b) = BlockOf(remote, blockSize, b)
                /\ output = remote)
    /\ [][cursor' >= cursor /\ IsPrefix(output, output')]_vars

\* A later block was fetched while an earlier one is still in flight.
OutOfOrderWitness ==
    /\ pc = "patching"
    /\ \E b1, b2 \in Blocks :
        /\ b1 < b2
        /\ status[b1] = "inflight"
        /\ attempts[b1] >= 1
        /\ status[b2] = "fetched"
        /\ cursor <= b1

====
